---- MODULE Spec2Model ----
(***************************************************************************)
(* specterra core: the sensor registry, the band loader (load,             *)
(* SatelliteImage.__init__, _load_bands), the band accessor (get_band),    *)
(* the compositor (plot_rgb and its nested normalize) and __repr__.        *)
(*                                                                         *)
(* Reflectance values are exact integers in units of 1e-7, so that         *)
(* 1.0 = One = 10000000 and the registry's scale factors and offsets are   *)
(* integers (0.0000275 = 275e-7, -0.2 = -2000000e-7, 0.0001 = 1000e-7).    *)
(* A float that is not a number is the value NaN.                          *)
(***************************************************************************)
EXTENDS Integers, Sequences, FiniteSets, TLC

VARIABLES
    pc,         \* position of the caller: start, the steps of _load_bands, loaded, raised
    path,       \* self.path (the load argument)
    sensor,     \* self.sensor (the load argument)
    config,     \* self.config
    bands,      \* self.bands: insertion-ordered dict, a sequence of [name, grid]
    metadata,   \* self.metadata
    idx,        \* position of the for loop in file_pattern.items()
    src,        \* the raster opened by the with statement, or None outside it
    handles,    \* the raster files currently open
    globbed,    \* the band names whose pattern has been globbed
    matched,    \* the band names whose glob returned at least one file
    warnings,   \* the warnings emitted, as the band names they name
    firstFile,  \* the first file rasterio opened and decoded
    error,      \* the exception that left load, or None
    ret,        \* the outcome of the last call on the loaded image, or None
    ngrid,      \* normalize: the band argument
    nstretch,   \* normalize: the stretch_pct argument
    nret        \* normalize: its outcome, or None before the call

vars == <<pc, path, sensor, config, bands, metadata, idx, src, handles,
          globbed, matched, warnings, firstFile, error, ret, ngrid, nstretch, nret>>

loadVars == <<pc, path, sensor, config, bands, metadata, idx, src, handles,
              globbed, matched, warnings, firstFile, error, ret>>

normVars == <<ngrid, nstretch, nret>>

None == [none |-> TRUE]

(***************************************************************************)
(* Bounds of the model.                                                    *)
(***************************************************************************)
\* the most files of a scene directory that match one band pattern
MaxFiles == 2
\* the most pixels of a grid handed to normalize
MaxPixels == 3

(***************************************************************************)
(* Numbers.                                                                *)
(***************************************************************************)
\* 1.0 in units of 1e-7: the upper clip bound of normalize
One == 10000000
\* a float that is not a number (a sentinel outside every modelled value)
NaN == -2147483647
\* the default stretch of plot_rgb
DefaultStretch == 2

(***************************************************************************)
(* The sensor registry.                                                    *)
(***************************************************************************)
LandsatPatterns ==
    << <<"coastal", "*_SR_B1.TIF">>, <<"blue", "*_SR_B2.TIF">>,
       <<"green", "*_SR_B3.TIF">>, <<"red", "*_SR_B4.TIF">>,
       <<"nir", "*_SR_B5.TIF">>, <<"swir1", "*_SR_B6.TIF">>,
       <<"swir2", "*_SR_B7.TIF">> >>

SentinelPatterns ==
    << <<"coastal", "*_B01_*.jp2">>, <<"blue", "*_B02_*.jp2">>,
       <<"green", "*_B03_*.jp2">>, <<"red", "*_B04_*.jp2">>,
       <<"rededge1", "*_B05_*.jp2">>, <<"rededge2", "*_B06_*.jp2">>,
       <<"rededge3", "*_B07_*.jp2">>, <<"nir", "*_B08_*.jp2">>,
       <<"nir_narrow", "*_B8A_*.jp2">>, <<"swir1", "*_B11_*.jp2">>,
       <<"swir2", "*_B12_*.jp2">> >>

SENSOR_CONFIG ==
    [landsat9c2 |-> [name |-> "Landsat 9 Collection 2",
                     file_pattern |-> LandsatPatterns,
                     scale_factor |-> 275, offset |-> -2000000],
     landsat8c2 |-> [name |-> "Landsat 8 Collection 2",
                     file_pattern |-> LandsatPatterns,
                     scale_factor |-> 275, offset |-> -2000000],
     sentinel2  |-> [name |-> "Sentinel-2 L2A",
                     file_pattern |-> SentinelPatterns,
                     scale_factor |-> 1000, offset |-> 0]]

\* list(SENSOR_CONFIG.keys())
SensorKeys == <<"landsat9c2", "landsat8c2", "sentinel2">>

SeqToSet(s) == {s[i] : i \in 1..Len(s)}

\* the abstract band names of a profile
BandNames(cfg) == {cfg.file_pattern[i][1] : i \in 1..Len(cfg.file_pattern)}

(***************************************************************************)
(* The insertion-ordered dict self.bands.                                  *)
(***************************************************************************)
\* list(self.bands.keys())
Keys(d) == [i \in 1..Len(d) |-> d[i].name]

\* name in self.bands
HasKey(d, name) == \E i \in 1..Len(d) : d[i].name = name

\* self.bands[name]
Lookup(d, name) == d[CHOOSE i \in 1..Len(d) : d[i].name = name].grid

\* self.bands[name] = grid
SetItem(d, name, grid) ==
    IF HasKey(d, name)
    THEN [i \in 1..Len(d) |-> IF d[i].name = name
                              THEN [name |-> name, grid |-> grid] ELSE d[i]]
    ELSE Append(d, [name |-> name, grid |-> grid])

(***************************************************************************)
(* normalize, the function nested in plot_rgb.                             *)
(* A pixel of its result is a fraction <<n, d>> (n/d, d > 0), or <<0, 0>>  *)
(* for NaN.  The percentiles are kept multiplied by 100, numerator and     *)
(* denominator of the rescaling by 200; the epsilon of the denominator,    *)
(* 1e-10, is rounded up to the smallest positive step of that scale,       *)
(* 5e-10, which is below the resolution of the samples.                    *)
(***************************************************************************)
NaNOut == <<0, 0>>

\* np.clip(x, 0, 1) of one sample; NaN stays NaN
Clip1(x) == IF x = NaN THEN NaN ELSE IF x < 0 THEN 0 ELSE IF x > One THEN One ELSE x

\* np.clip(band, 0, 1)
ClipGrid(g) == [i \in 1..Len(g) |-> Clip1(g[i])]

\* band_clip[band_clip > 0]: NaN > 0 is False
Valid(g) == SelectSeq(g, LAMBDA x : x # NaN /\ x > 0)

RECURSIVE Insert(_, _)
Insert(s, x) ==
    IF s = <<>> THEN <<x>>
    ELSE IF x <= Head(s) THEN <<x>> \o s
    ELSE <<Head(s)>> \o Insert(Tail(s), x)

RECURSIVE Sorted(_)
Sorted(s) == IF s = <<>> THEN <<>> ELSE Insert(Sorted(Tail(s)), Head(s))

\* 100 * np.percentile(v, q), linear interpolation between the order statistics
Percentile100(v, q) ==
    LET a == Sorted(v)
        n == Len(a)
        t == q * (n - 1)
        lo == (t \div 100) + 1
        r == t % 100
    IN IF r = 0 THEN 100 * a[lo]
       ELSE a[lo] * (100 - r) + a[lo + 1] * r

\* the clipped sample as a fraction of One
Frac(x) == IF x = NaN THEN NaNOut ELSE <<x, One>>

\* np.clip(num / den, 0, 1) for integers num and den # 0
ClipRatio(num, den) ==
    LET n == IF den < 0 THEN -num ELSE num
        d == IF den < 0 THEN -den ELSE den
    IN IF n <= 0 THEN <<0, 1>> ELSE IF n >= d THEN <<1, 1>> ELSE <<n, d>>

\* Rescale without the final np.clip
Rescale_NoClip(x, plow, phigh) ==
    IF x = NaN THEN NaNOut
    ELSE LET num == 2 * (100 * x - plow)
             den == 2 * (phigh - plow) + 1
         IN IF den < 0 THEN <<-num, -den>> ELSE <<num, den>>

\* np.clip((x - p_low) / (p_high - p_low + 1e-10), 0, 1) of one clipped sample
Rescale(x, plow, phigh) ==
    IF x = NaN THEN NaNOut
    ELSE ClipRatio(2 * (100 * x - plow), 2 * (phigh - plow) + 1)

normalize(band, stretch_pct) ==
    LET band_clip == ClipGrid(band)
        valid == Valid(band_clip)
    IN IF Len(valid) = 0
       THEN [out |-> [i \in 1..Len(band) |-> Frac(band_clip[i])],
             percentiles |-> 0, divisions |-> 0]
       ELSE LET p_low == Percentile100(valid, stretch_pct)
                p_high == Percentile100(valid, 100 - stretch_pct)
            IN [out |-> [i \in 1..Len(band) |-> Rescale(band_clip[i], p_low, p_high)],
                percentiles |-> 2, divisions |-> 1]

(***************************************************************************)
(* The collaborators: the file system and the raster decoder.              *)
(***************************************************************************)
Paths == {"/data/scene", "/data/missing"}

\* os.path.exists(path)
ExistingPaths == {"/data/scene"}

SensorArgs == {"landsat9c2", "landsat8c2", "sentinel2", "modis"}

\* a file of the scene directory: the k-th file matching a pattern
FilesOf(pattern) == {<<pattern, k>> : k \in 1..MaxFiles}

\* what glob.glob can return for a pattern: the matching files, in any order
GlobResults(pattern) ==
    {fs \in UNION {[1..n -> FilesOf(pattern)] : n \in 0..MaxFiles} :
        \A i, j \in 1..Len(fs) : i # j => fs[i] # fs[j]}

AllPatterns == LandsatPatterns \o SentinelPatterns

\* raw digital numbers of the rasters of a scene, one row each
RawSamples ==
    << <<0, 0>>, <<7273, 10909, 20000>>, <<10000, 43637>>, <<NaN, 10909>> >>

\* src.read(1).astype(np.float32): the samples of a file, by the band it holds
RawGrid(f) ==
    LET i == CHOOSE j \in 1..Len(AllPatterns) : AllPatterns[j][2] = f[1]
    IN RawSamples[((i - 1) % Len(RawSamples)) + 1]

\* the georeferencing rasterio reports for a file
Georef(f) ==
    [crs |-> "EPSG:32614", transform |-> f, width |-> Len(RawGrid(f)),
     height |-> 1, bounds |-> f]

\* data * scale + offset
ScaleOffset(data, cfg) ==
    [i \in 1..Len(data) |->
        IF data[i] = NaN THEN NaN ELSE data[i] * cfg.scale_factor + cfg.offset]

(***************************************************************************)
(* load and SatelliteImage.__init__.                                       *)
(***************************************************************************)
Init ==
    /\ pc = "start"
    /\ path = ""
    /\ sensor = ""
    /\ config = None
    /\ bands = <<>>
    /\ metadata = None
    /\ idx = 0
    /\ src = None
    /\ handles = {}
    /\ globbed = {}
    /\ matched = {}
    /\ warnings = <<>>
    /\ firstFile = None
    /\ error = None
    /\ ret = None
    /\ ngrid = <<>>
    /\ nstretch = DefaultStretch
    /\ nret = None

\* SatelliteImageInit with an unknown sensor falling back to the default profile
SatelliteImageInit_DefaultSensor(p, s) ==
    /\ path' = p
    /\ sensor' = s
    /\ bands' = <<>>
    /\ metadata' = None
    /\ config' = IF s \in DOMAIN SENSOR_CONFIG THEN SENSOR_CONFIG[s]
                 ELSE SENSOR_CONFIG["landsat9c2"]
    /\ idx' = 1
    /\ pc' = "loop"
    /\ UNCHANGED <<src, handles, globbed, matched, warnings, firstFile, error, ret>>
    /\ UNCHANGED normVars

SatelliteImageInit(p, s) ==
    /\ path' = p
    /\ sensor' = s
    /\ bands' = <<>>
    /\ metadata' = None
    /\ IF s \notin DOMAIN SENSOR_CONFIG
       THEN /\ error' = [type |-> "ValueError", sensor |-> s, options |-> SensorKeys]
            /\ pc' = "raised"
            /\ UNCHANGED <<config, idx>>
       ELSE /\ config' = SENSOR_CONFIG[s]
            /\ idx' = 1
            /\ pc' = "loop"
            /\ UNCHANGED error
    /\ UNCHANGED <<src, handles, globbed, matched, warnings, firstFile, ret>>
    /\ UNCHANGED normVars

\* load without the os.path.exists check
load_NoPathCheck(p, s) ==
    /\ pc = "start"
    /\ path' = p
    /\ sensor' = s
    /\ bands' = <<>>
    /\ metadata' = None
    /\ IF s \notin DOMAIN SENSOR_CONFIG
       THEN /\ error' = [type |-> "ValueError", sensor |-> s, options |-> SensorKeys]
            /\ pc' = "raised"
            /\ UNCHANGED <<config, idx>>
       ELSE /\ config' = SENSOR_CONFIG[s]
            /\ idx' = 1
            /\ pc' = "loop"
            /\ UNCHANGED error
    /\ UNCHANGED <<src, handles, globbed, matched, warnings, firstFile, ret>>
    /\ UNCHANGED normVars

load(p, s) ==
    /\ pc = "start"
    /\ IF p \notin ExistingPaths
       THEN /\ error' = [type |-> "FileNotFoundError", path |-> p]
            /\ pc' = "raised"
            /\ path' = p
            /\ sensor' = s
            /\ UNCHANGED <<config, bands, metadata, idx, src, handles, globbed,
                           matched, warnings, firstFile, ret>>
            /\ UNCHANGED normVars
       ELSE SatelliteImageInit(p, s)

(***************************************************************************)
(* SatelliteImage._load_bands, one step per statement of the loop body.    *)
(***************************************************************************)
BandName == config.file_pattern[idx][1]
Pattern == config.file_pattern[idx][2]

\* files = glob.glob(...); if not files: warn and continue;
\* with rasterio.open(files[0]) as src: the open succeeds or raises
LoadBandsGlob ==
    /\ pc = "loop"
    /\ idx <= Len(config.file_pattern)
    /\ \E fs \in GlobResults(Pattern) :
        /\ globbed' = globbed \cup {BandName}
        /\ IF fs = <<>>
           THEN /\ warnings' = Append(warnings, BandName)
                /\ idx' = idx + 1
                /\ pc' = "loop"
                /\ UNCHANGED <<matched, src, handles, error>>
           ELSE /\ matched' = matched \cup {BandName}
                /\ \/ /\ src' = [file |-> fs[1]]
                      /\ handles' = handles \cup {fs[1]}
                      /\ pc' = "read"
                      /\ UNCHANGED error
                   \/ /\ error' = [type |-> "RasterioIOError", file |-> fs[1]]
                      /\ pc' = "raised"
                      /\ UNCHANGED <<src, handles>>
                /\ UNCHANGED <<warnings, idx>>
    /\ UNCHANGED <<path, sensor, config, bands, metadata, firstFile, ret>>
    /\ UNCHANGED normVars

\* LoadBandsRead storing the band only while no metadata has been captured
LoadBandsRead_StoreFirstOnly ==
    /\ pc = "read"
    /\ \/ /\ bands' = IF metadata = None
                      THEN SetItem(bands, BandName, ScaleOffset(RawGrid(src.file), config))
                      ELSE bands
          /\ firstFile' = IF firstFile = None THEN src ELSE firstFile
          /\ pc' = "meta"
          /\ UNCHANGED <<src, handles, error>>
       \/ /\ error' = [type |-> "RasterioIOError", file |-> src.file]
          /\ handles' = handles \ {src.file}
          /\ src' = None
          /\ pc' = "raised"
          /\ UNCHANGED <<bands, firstFile>>
    /\ UNCHANGED <<path, sensor, config, metadata, idx, globbed, matched,
                   warnings, ret>>
    /\ UNCHANGED normVars

\* LoadBandsRead catching the decode error and going on with the next band
LoadBandsRead_SkipBad ==
    /\ pc = "read"
    /\ \/ /\ bands' = SetItem(bands, BandName, ScaleOffset(RawGrid(src.file), config))
          /\ firstFile' = IF firstFile = None THEN src ELSE firstFile
          /\ pc' = "meta"
          /\ UNCHANGED <<src, handles, error, idx>>
       \/ /\ error' = [type |-> "RasterioIOError", file |-> src.file]
          /\ handles' = handles \ {src.file}
          /\ src' = None
          /\ idx' = idx + 1
          /\ pc' = "loop"
          /\ UNCHANGED <<bands, firstFile>>
    /\ UNCHANGED <<path, sensor, config, metadata, globbed, matched,
                   warnings, ret>>
    /\ UNCHANGED normVars

\* data = src.read(1).astype(np.float32); self.bands[band_name] = data * scale + offset
\* a failing read leaves the with block, which closes src
LoadBandsRead ==
    /\ pc = "read"
    /\ \/ /\ bands' = SetItem(bands, BandName, ScaleOffset(RawGrid(src.file), config))
          /\ firstFile' = IF firstFile = None THEN src ELSE firstFile
          /\ pc' = "meta"
          /\ UNCHANGED <<src, handles, error>>
       \/ /\ error' = [type |-> "RasterioIOError", file |-> src.file]
          /\ handles' = handles \ {src.file}
          /\ src' = None
          /\ pc' = "raised"
          /\ UNCHANGED <<bands, firstFile>>
    /\ UNCHANGED <<path, sensor, config, metadata, idx, globbed, matched,
                   warnings, ret>>
    /\ UNCHANGED normVars

\* LoadBandsMetadata without the "is None" test: every band overwrites the metadata
LoadBandsMetadata_Overwrite ==
    /\ pc = "meta"
    /\ metadata' = [crs |-> Georef(src.file).crs,
                    transform |-> Georef(src.file).transform,
                    width |-> Georef(src.file).width,
                    height |-> Georef(src.file).height,
                    bounds |-> Georef(src.file).bounds,
                    sensor |-> config.name]
    /\ pc' = "close"
    /\ UNCHANGED <<path, sensor, config, bands, idx, src, handles, globbed,
                   matched, warnings, firstFile, error, ret>>
    /\ UNCHANGED normVars

\* if self.metadata is None: self.metadata = {...}
LoadBandsMetadata ==
    /\ pc = "meta"
    /\ metadata' = IF metadata = None
                   THEN [crs |-> Georef(src.file).crs,
                         transform |-> Georef(src.file).transform,
                         width |-> Georef(src.file).width,
                         height |-> Georef(src.file).height,
                         bounds |-> Georef(src.file).bounds,
                         sensor |-> config.name]
                   ELSE metadata
    /\ pc' = "close"
    /\ UNCHANGED <<path, sensor, config, bands, idx, src, handles, globbed,
                   matched, warnings, firstFile, error, ret>>
    /\ UNCHANGED normVars

\* LoadBandsClose for a raster opened without a with block: the handle stays open
LoadBandsClose_Leak ==
    /\ pc = "close"
    /\ src' = None
    /\ idx' = idx + 1
    /\ pc' = "loop"
    /\ UNCHANGED <<path, sensor, config, bands, metadata, handles, globbed, matched,
                   warnings, firstFile, error, ret>>
    /\ UNCHANGED normVars

\* the end of the with block closes src; the loop moves to the next band
LoadBandsClose ==
    /\ pc = "close"
    /\ handles' = handles \ {src.file}
    /\ src' = None
    /\ idx' = idx + 1
    /\ pc' = "loop"
    /\ UNCHANGED <<path, sensor, config, bands, metadata, globbed, matched,
                   warnings, firstFile, error, ret>>
    /\ UNCHANGED normVars

\* the loop is exhausted: _load_bands, __init__ and load return the image
LoadBandsDone ==
    /\ pc = "loop"
    /\ idx > Len(config.file_pattern)
    /\ pc' = "loaded"
    /\ UNCHANGED <<path, sensor, config, bands, metadata, idx, src, handles,
                   globbed, matched, warnings, firstFile, error, ret>>
    /\ UNCHANGED normVars

(***************************************************************************)
(* The calls on a loaded image.                                            *)
(***************************************************************************)
\* the band names the callers ask get_band for
NameArgs == {"red", "nir", "rededge1", "thermal"}

\* the band triples the callers ask plot_rgb for
RgbArgs == {<<"red", "green", "blue">>, <<"nir", "red", "green">>,
            <<"rededge1", "nir", "red">>, <<"swir2", "thermal", "red">>}

\* get_band as self.bands.get(name): a missing name yields no error
get_band_NoError(name) ==
    /\ pc = "loaded"
    /\ ret' = IF ~HasKey(bands, name)
              THEN [op |-> "get_band", args |-> <<name>>, raised |-> "", value |-> <<>>]
              ELSE [op |-> "get_band", args |-> <<name>>, raised |-> "",
                    value |-> Lookup(bands, name)]
    /\ UNCHANGED <<pc, path, sensor, config, bands, metadata, idx, src, handles,
                   globbed, matched, warnings, firstFile, error>>
    /\ UNCHANGED normVars

get_band(name) ==
    /\ pc = "loaded"
    /\ ret' = IF ~HasKey(bands, name)
              THEN [op |-> "get_band", args |-> <<name>>, raised |-> "KeyError",
                    name |-> name, available |-> Keys(bands)]
              ELSE [op |-> "get_band", args |-> <<name>>, raised |-> "",
                    value |-> Lookup(bands, name)]
    /\ UNCHANGED <<pc, path, sensor, config, bands, metadata, idx, src, handles,
                   globbed, matched, warnings, firstFile, error>>
    /\ UNCHANGED normVars

\* the first of r, g, b that is not in self.bands, or "" when all three are
FirstMissing(d, rgb) ==
    IF \A i \in 1..3 : HasKey(d, rgb[i]) THEN ""
    ELSE rgb[CHOOSE i \in 1..3 : /\ ~HasKey(d, rgb[i])
                                 /\ \A j \in 1..(i - 1) : HasKey(d, rgb[j])]

\* plot_rgb without its check loop: get_band raises on the first missing band,
\* after the bands before it have been fetched
plot_rgb_NoCheck(r, g, b, stretch) ==
    /\ pc = "loaded"
    /\ ret' = IF FirstMissing(bands, <<r, g, b>>) # ""
              THEN [op |-> "plot_rgb", args |-> <<r, g, b>>, raised |-> "KeyError",
                    name |-> FirstMissing(bands, <<r, g, b>>),
                    available |-> Keys(bands), normalized |-> 0, plotted |-> 0]
              ELSE [op |-> "plot_rgb", args |-> <<r, g, b>>, raised |-> "",
                    rgb |-> <<normalize(Lookup(bands, r), stretch).out,
                              normalize(Lookup(bands, g), stretch).out,
                              normalize(Lookup(bands, b), stretch).out>>,
                    title |-> <<r, g, b, config.name>>,
                    normalized |-> 3, plotted |-> 1]
    /\ UNCHANGED <<pc, path, sensor, config, bands, metadata, idx, src, handles,
                   globbed, matched, warnings, firstFile, error>>
    /\ UNCHANGED normVars

plot_rgb(r, g, b, stretch) ==
    /\ pc = "loaded"
    /\ ret' = IF FirstMissing(bands, <<r, g, b>>) # ""
              THEN [op |-> "plot_rgb", args |-> <<r, g, b>>, raised |-> "ValueError",
                    name |-> FirstMissing(bands, <<r, g, b>>),
                    options |-> Keys(bands), normalized |-> 0, plotted |-> 0]
              ELSE [op |-> "plot_rgb", args |-> <<r, g, b>>, raised |-> "",
                    rgb |-> <<normalize(Lookup(bands, r), stretch).out,
                              normalize(Lookup(bands, g), stretch).out,
                              normalize(Lookup(bands, b), stretch).out>>,
                    title |-> <<r, g, b, config.name>>,
                    normalized |-> 3, plotted |-> 1]
    /\ UNCHANGED <<pc, path, sensor, config, bands, metadata, idx, src, handles,
                   globbed, matched, warnings, firstFile, error>>
    /\ UNCHANGED normVars

\* __repr__: self.metadata['width'] raises TypeError when self.metadata is None
repr ==
    /\ pc = "loaded"
    /\ ret' = IF metadata = None
              THEN [op |-> "repr", args |-> <<>>, raised |-> "TypeError"]
              ELSE [op |-> "repr", args |-> <<>>, raised |-> "",
                    value |-> [sensor |-> sensor, bands |-> Len(bands),
                               width |-> metadata.width, height |-> metadata.height]]
    /\ UNCHANGED <<pc, path, sensor, config, bands, metadata, idx, src, handles,
                   globbed, matched, warnings, firstFile, error>>
    /\ UNCHANGED normVars

Next ==
    \/ \E p \in Paths, s \in SensorArgs : load(p, s)
    \/ LoadBandsGlob
    \/ LoadBandsRead
    \/ LoadBandsMetadata
    \/ LoadBandsClose
    \/ LoadBandsDone
    \/ \E name \in NameArgs : get_band(name)
    \/ \E rgb \in RgbArgs : plot_rgb(rgb[1], rgb[2], rgb[3], DefaultStretch)
    \/ repr

Spec == Init /\ [][Next]_vars

(***************************************************************************)
(* normalize on its own: every small grid, several stretches.              *)
(***************************************************************************)
PixelValues == {NaN, -2000000, 0, 75, 999975, 5000000, One, 15000000}

StretchValues == {0, 2, 50, 75}

Grids == UNION {[1..n -> PixelValues] : n \in 1..MaxPixels}

NormInit ==
    /\ pc = "start"
    /\ path = ""
    /\ sensor = ""
    /\ config = None
    /\ bands = <<>>
    /\ metadata = None
    /\ idx = 0
    /\ src = None
    /\ handles = {}
    /\ globbed = {}
    /\ matched = {}
    /\ warnings = <<>>
    /\ firstFile = None
    /\ error = None
    /\ ret = None
    /\ ngrid \in Grids
    /\ nstretch \in StretchValues
    /\ nret = None

NormCall ==
    /\ nret = None
    /\ nret' = normalize(ngrid, nstretch)
    /\ UNCHANGED <<ngrid, nstretch>>
    /\ UNCHANGED loadVars

NormNext == NormCall

NormSpec == NormInit /\ [][NormNext]_vars

(***************************************************************************)
(* Properties.                                                             *)
(***************************************************************************)
Registered(s) == s \in DOMAIN SENSOR_CONFIG

\* C1: load on a path that does not exist fails with FileNotFoundError for
\* every sensor identifier, registered or not, and no band is globbed or opened.
C1_MissingPath ==
    (pc # "start" /\ path \notin ExistingPaths)
        => /\ pc = "raised"
           /\ error = [type |-> "FileNotFoundError", path |-> path]
           /\ globbed = {}
           /\ matched = {}
           /\ handles = {}
           /\ firstFile = None

C1_Witness ==
    /\ pc = "raised"
    /\ path \notin ExistingPaths
    /\ ~Registered(sensor)
    /\ error.type = "FileNotFoundError"

\* C2 as stated: load with an unregistered sensor identifier fails with the
\* unknown-sensor ValueError whether or not the path exists.
C2_UnknownSensorAnyPath ==
    (pc # "start" /\ ~Registered(sensor))
        => /\ pc = "raised"
           /\ error.type = "ValueError"

\* C2 amended: load with an unregistered sensor identifier always fails; with an
\* existing path the error is the ValueError listing the valid identifiers, with
\* a path that does not exist it is FileNotFoundError; nothing is globbed.
C2_UnknownSensor ==
    (pc # "start" /\ ~Registered(sensor))
        => /\ pc = "raised"
           /\ error = IF path \in ExistingPaths
                      THEN [type |-> "ValueError", sensor |-> sensor,
                            options |-> SensorKeys]
                      ELSE [type |-> "FileNotFoundError", path |-> path]
           /\ SeqToSet(SensorKeys) = DOMAIN SENSOR_CONFIG
           /\ globbed = {}

C2_Witness ==
    /\ pc = "raised"
    /\ path \in ExistingPaths
    /\ ~Registered(sensor)
    /\ error.type = "ValueError"

\* C3: when load succeeds the key set of the band store is exactly the set of
\* band names whose pattern matched a file; every unmatched band of the profile
\* is absent and produced exactly one warning.
C3_StoreIsMatched ==
    pc = "loaded"
        => /\ error = None
           /\ SeqToSet(Keys(bands)) = matched
           /\ Len(bands) = Cardinality(matched)
           /\ matched \subseteq BandNames(config)
           /\ SeqToSet(warnings) = BandNames(config) \ matched
           /\ Len(warnings) = Cardinality(BandNames(config) \ matched)
           /\ (matched = BandNames(config) => SeqToSet(Keys(bands)) = BandNames(config))

C3_Witness ==
    /\ pc = "loaded"
    /\ sensor = "landsat9c2"
    /\ matched = BandNames(config) \ {"red"}
    /\ ~HasKey(bands, "red")
    /\ warnings = <<"red">>

\* the metadata record captured from a decoded file
MetadataOf(f, cfg) ==
    [crs |-> Georef(f).crs, transform |-> Georef(f).transform,
     width |-> Georef(f).width, height |-> Georef(f).height,
     bounds |-> Georef(f).bounds, sensor |-> cfg.name]

\* the pattern of the first band, in profile order, whose glob matched
FirstMatchedPattern ==
    LET fp == config.file_pattern
        i == CHOOSE k \in 1..Len(fp) :
                /\ fp[k][1] \in matched
                /\ \A j \in 1..(k - 1) : fp[j][1] \notin matched
    IN fp[i][2]

MetadataIsFirstBand ==
    (pc = "loaded" /\ bands # <<>>)
        => /\ firstFile # None
           /\ firstFile.file[1] = FirstMatchedPattern
           /\ metadata = MetadataOf(firstFile.file, config)
           /\ metadata.width = Len(bands[1].grid)

\* C4 as stated: at every moment during and after load the metadata is absent
\* exactly when the band store is empty, and after load it is the record of the
\* first matched and decoded band.
C4_MetadataIffBands ==
    /\ (metadata = None) <=> (bands = <<>>)
    /\ MetadataIsFirstBand

\* C4 amended: the metadata is absent exactly when the band store is empty at
\* every moment except between the statement that stores a band's grid and the
\* statement after it that captures the metadata; once set the metadata is never
\* overwritten, and after load it is the record of the first matched band.
C4_MetadataFirstBand ==
    /\ [](pc # "meta" => ((metadata = None) <=> (bands = <<>>)))
    /\ [](pc = "meta" => bands # <<>>)
    /\ []MetadataIsFirstBand
    /\ [][metadata # None => metadata' = metadata]_vars

C4_Witness ==
    /\ pc = "loaded"
    /\ Len(bands) >= 2
    /\ metadata = MetadataOf(firstFile.file, config)
    /\ metadata.width # Len(bands[2].grid)

\* C5: a decode failure aborts the whole load: the error reaches the caller, no
\* image is returned, no file stays open, and no band after the failing one is
\* globbed, opened or stored.
C5_DecodeAborts ==
    (error # None /\ error.type = "RasterioIOError")
        => /\ pc = "raised"
           /\ ret = None
           /\ handles = {}
           /\ error.file[1] = Pattern
           /\ globbed = {config.file_pattern[i][1] : i \in 1..idx}
           /\ SeqToSet(Keys(bands)) \subseteq
                  {config.file_pattern[i][1] : i \in 1..(idx - 1)}

C5_Witness ==
    /\ pc = "raised"
    /\ error.type = "RasterioIOError"
    /\ bands # <<>>
    /\ idx < Len(config.file_pattern)

\* C6: plot_rgb with a band name that is not in the band store raises the
\* ValueError naming the first missing band in R, G, B order and listing the
\* available bands, before any normalize or plotting call, and leaves the band
\* store and the metadata unchanged.
C6_PlotRgbMissing ==
    [][(pc = "loaded" /\ ret' # ret /\ ret'.op = "plot_rgb"
          /\ \E i \in 1..3 : ~HasKey(bands, ret'.args[i]))
        => LET a == ret'.args
           IN /\ ret'.raised = "ValueError"
              /\ ret'.name = IF ~HasKey(bands, a[1]) THEN a[1]
                             ELSE IF ~HasKey(bands, a[2]) THEN a[2] ELSE a[3]
              /\ ret'.options = Keys(bands)
              /\ ret'.normalized = 0
              /\ ret'.plotted = 0
              /\ bands' = bands
              /\ metadata' = metadata]_vars

C6_Witness ==
    /\ pc = "loaded"
    /\ ret # None
    /\ ret.op = "plot_rgb"
    /\ ret.raised = "ValueError"
    /\ HasKey(bands, ret.args[1])
    /\ ret.name = ret.args[2]
    /\ ~HasKey(bands, ret.args[3])

\* C7: get_band returns the grid stored under the name when the name is in the
\* band store and otherwise raises the KeyError carrying the name and the loaded
\* band names; either way the band store and the metadata are unchanged.
C7_GetBand ==
    [][(pc = "loaded" /\ ret' # ret /\ ret'.op = "get_band")
        => LET n == ret'.args[1]
           IN /\ IF \E i \in 1..Len(bands) : bands[i].name = n
                 THEN /\ ret'.raised = ""
                      /\ \E i \in 1..Len(bands) :
                            bands[i].name = n /\ ret'.value = bands[i].grid
                 ELSE /\ ret'.raised = "KeyError"
                      /\ ret'.name = n
                      /\ ret'.available = Keys(bands)
              /\ bands' = bands
              /\ metadata' = metadata]_vars

C7_Witness ==
    /\ pc = "loaded"
    /\ ret # None
    /\ ret.op = "get_band"
    /\ ret.raised = "KeyError"
    /\ ret.name = "red"
    /\ ret.available # <<>>

\* C8: for every image load returns, the one with an empty band store included,
\* the summary representation is produced without error and reports the sensor,
\* the number of bands and the metadata width and height.
C8_ReprTotal ==
    (pc = "loaded" /\ ret # None /\ ret.op = "repr")
        => /\ ret.raised = ""
           /\ ret.value.sensor = sensor
           /\ ret.value.bands = Len(bands)

\* C9: during load at most one band file is open at any moment, each file is
\* closed before the next band is looked for, and no file is open when load
\* returns or aborts.
C9_OneHandle ==
    /\ Cardinality(handles) <= 1
    /\ pc \in {"start", "loop", "loaded", "raised"} => handles = {}
    /\ pc \in {"read", "meta", "close"} => handles = {src.file}

C9_Witness ==
    /\ pc = "read"
    /\ bands # <<>>
    /\ handles = {src.file}

\* the grid has no strictly positive value after clipping to [0, 1]
NoValid(g) == \A i \in 1..Len(g) : g[i] = NaN \/ g[i] <= 0

\* a fraction in [0, 1]
InUnit(q) == q[2] > 0 /\ 0 <= q[1] /\ q[1] <= q[2]

Degenerate ==
    /\ nret.percentiles = 0
    /\ nret.divisions = 0
    /\ \A i \in 1..Len(ngrid) :
          nret.out[i] = IF ngrid[i] = NaN THEN NaNOut ELSE <<0, One>>
    /\ (\A i \in 1..Len(ngrid) : ngrid[i] = 0)
          => nret.out = [i \in 1..Len(ngrid) |-> <<ngrid[i], One>>]

\* C10 as stated: a grid with no strictly positive value after clipping comes
\* back clipped, with no percentile and no division computed (an all-zero grid
\* comes back equal to itself); for every other grid each output value lies in
\* [0, 1].
C10_NormalizeRange ==
    nret # None
        => /\ Len(nret.out) = Len(ngrid)
           /\ IF NoValid(ngrid) THEN Degenerate
              ELSE \A i \in 1..Len(ngrid) : InUnit(nret.out[i])

\* C10 amended: the same, except that for every other grid each output value
\* of a sample that is a number lies in [0, 1] and a NaN sample stays NaN.
C10_NormalizeRangeNumbers ==
    nret # None
        => /\ Len(nret.out) = Len(ngrid)
           /\ IF NoValid(ngrid) THEN Degenerate
              ELSE \A i \in 1..Len(ngrid) :
                      IF ngrid[i] = NaN THEN nret.out[i] = NaNOut
                      ELSE InUnit(nret.out[i])

C10_Witness ==
    /\ nret # None
    /\ ~NoValid(ngrid)
    /\ nstretch = DefaultStretch
    /\ \E i \in 1..Len(ngrid) : nret.out[i][1] > 0 /\ nret.out[i][1] < nret.out[i][2]
    /\ \E i \in 1..Len(ngrid) : ngrid[i] # NaN /\ ngrid[i] > One /\ nret.out[i] = <<1, 1>>

====
